---- MODULE Spec2Model ----
(***************************************************************************)
(* Table OCR with formula placeholders: extract_table_format of            *)
(* adapters/infrastructure/format_converters/convert_table_to_html.py,     *)
(* with the remote OCR client (remote_ocr/vllm_openai_client.py) and the   *)
(* markup assembler (markup_conversion/pdf_to_markup_service_adapter.py).  *)
(* Each component has its own variables and its own specification; the     *)
(* variables of the other components stay at rest.                         *)
(*                                                                         *)
(* Strings are sequences of characters.  The seven letters of the marker   *)
(* label are written as one character: "F" for "FORMULA" and "f" for       *)
(* "formula" (its lower-case form).  The three backticks of a code fence   *)
(* are written as one character, "FENCE".  Every other character is       *)
(* itself.                                                                 *)
(***************************************************************************)
EXTENDS Integers, Sequences, FiniteSets, TLC

VARIABLES
    REMOTE_OCR_ENABLED,   \* configuration.REMOTE_OCR_ENABLED, read once
    backend,              \* the results the mocked OCR / table engine may return
    predicted_segments,   \* list[PdfSegment]; text_content is mutable
    segments0,            \* history: predicted_segments at the call
    images,               \* image objects: 1..NumPages are pdf_images.pdf_images, CropId is the crop
    dpi,                  \* pdf_images.dpi
    pc,                   \* position in extract_table_format
    table_segments,       \* indexes (in predicted_segments) of the TABLE segments
    formula_segments,     \* indexes of the FORMULA segments
    ti,                   \* position of the for loop in table_segments
    table_image,          \* id of the image object the iteration draws on and sends to OCR
    marker_to_formula,    \* dict in insertion order: <<[marker, formula]>>
    attempt,              \* retry loop counter
    html,
    last_html,
    ocr_calls,            \* history: <<[image, result]>> of ocr_table_html calls of this iteration
    accepted,             \* history: html after lines 179-182 of this iteration
    outcome,              \* history: how each finished iteration ended, by position in table_segments
    local_call            \* history: last local iteration, [seg, crop, ocr, engine_args, pred_html]

\* remote_ocr/vllm_openai_client.py: the per-thread async client
VARIABLES
    thread_local,         \* _thread_local: the async_client attribute of each thread's namespace
    clients,              \* history: the AsyncOpenAI objects constructed, each with its constructing thread
    frames,               \* per thread: position in ocr_*_async / _get_async_client and the local client
    started,              \* per thread: calls of ocr_table_html_async / ocr_formula_latex_async so far
    requests              \* history: <<[thread, client]>> of client.chat.completions.create calls

clientVars == <<thread_local, clients, frames, started, requests>>

\* remote_ocr/vllm_openai_client.py: the text an OCR call returns
VARIABLES
    message,              \* response.choices[0].message: [none, content], content None when none
    ocr_text              \* history: [returned, text], the str the OCR call returned

fenceVars == <<message, ocr_text>>

\* format_converters/convert_table_to_html.py: one crop and one placeholder
VARIABLES
    geometry,             \* [table, formula, dpi]: two boxes in points and pdf_images.dpi
    crop_image,           \* table_image of lines 123-128, NoImage before
    placement             \* history: the locals of _draw_formula_placeholder at its return

geometryVars == <<geometry, crop_image, placement>>

\* markup_conversion/pdf_to_markup_service_adapter.py: convert_to_format
VARIABLES
    vgt_segments,         \* list[SegmentBox], in the order given by the caller
    config,               \* [output_format, extract_toc, output_file]: the adapter and its call
    apc,                  \* position in convert_to_format / _get_styled_content_parts
    page_index,           \* position of the for loop in pdf_features.pages
    position,             \* position of the for loop in segments_in_page
    picture_id,
    extracted_images,     \* [none, names]: None, or the file names of the images extracted
    content_parts,        \* list[str]
    produced,             \* history: <<[segment, producer, fragment]>>, one per producer call
    content               \* "".join(content_parts)

assemblerVars == <<vgt_segments, config, apc, page_index, position, picture_id,
                   extracted_images, content_parts, produced, content>>

\* the variables of extract_table_format
tableVars == <<REMOTE_OCR_ENABLED, backend, predicted_segments, segments0, images, dpi, pc,
               table_segments, formula_segments, ti, table_image, marker_to_formula,
               attempt, html, last_html, ocr_calls, accepted, outcome, local_call>>

\* the variables outside extract_table_format
otherVars == <<clientVars, fenceVars, geometryVars, assemblerVars>>

vars == <<tableVars, otherVars>>

(***************************************************************************)
(* Bounds of the model                                                     *)
(***************************************************************************)
NumPages == 2        \* pages of the rendered document
MaxFormulas == 2     \* FORMULA segments of a document
MaxCoord == 3        \* bounding-box coordinates (points) of the layout documents
NumThreads == 2      \* worker threads that call the awaitable remote OCR
MaxCalls == 2        \* awaitable OCR calls started on one thread
MaxText == 5         \* characters of a response of the remote backend
MaxSegments == 2     \* segments handed to the markup assembler

(***************************************************************************)
(* Program constants                                                       *)
(***************************************************************************)
MaxAttempts == 3     \* for attempt in range(1, 4)
PointsPerInch == 72  \* int(x * dpi / 72)
MarkerWidth == 3     \* f"FORMULA_{idx:03d}"
MinPad == 2          \* max(2, ...)
PadPercent == 5      \* int(min(...) * 0.05)
MinFont == 16        \* max(16, min(64, int(box_h * 0.6)))
MaxFont == 64
FontPercent == 60

CropId == NumPages + 1

(***************************************************************************)
(* Python str operations                                                   *)
(***************************************************************************)
\* s[from:] for a 1-based position
Drop(s, n) == SubSeq(s, n + 1, Len(s))

\* sub in s
In(sub, s) == \E i \in 0..(Len(s) - Len(sub)) : SubSeq(s, i + 1, i + Len(sub)) = sub

\* s.replace(old, new) for a non-empty old: every non-overlapping occurrence, left to right
RECURSIVE Replace(_, _, _)
Replace(s, old, new) ==
    IF Len(s) < Len(old) \/ old = <<>> THEN s
    ELSE IF SubSeq(s, 1, Len(old)) = old
         THEN new \o Replace(Drop(s, Len(old)), old, new)
         ELSE <<Head(s)>> \o Replace(Tail(s), old, new)

\* s.lower()
Lower(s) == [i \in 1..Len(s) |-> IF s[i] = "F" THEN "f" ELSE s[i]]

\* s.strip(), s.rstrip(): the blank and the line feed are whitespace
Whitespace == {" ", "\n"}
RECURSIVE LStrip(_)
LStrip(s) == IF s # <<>> /\ Head(s) \in Whitespace THEN LStrip(Tail(s)) ELSE s
RECURSIVE RStrip(_)
RStrip(s) == IF s # <<>> /\ s[Len(s)] \in Whitespace THEN RStrip(SubSeq(s, 1, Len(s) - 1)) ELSE s
StripIdentity(s) == s
Strip(s) == LStrip(RStrip(s))

\* f"{idx:03d}"
DigitChars == <<"0", "1", "2", "3", "4", "5", "6", "7", "8", "9">>
RECURSIVE Decimal(_)
Decimal(n) == IF n < 10 THEN <<DigitChars[n + 1]>> ELSE Decimal(n \div 10) \o <<DigitChars[(n % 10) + 1]>>
RECURSIVE ZeroPad(_, _)
ZeroPad(s, width) == IF Len(s) >= width THEN s ELSE ZeroPad(<<"0">> \o s, width)

\* f"FORMULA_{idx:03d}"
FormatMarker(idx) == <<"F", "_">> \o ZeroPad(Decimal(idx), MarkerWidth)

\* the variants list of the substitution, in the order it is tried
MarkerVariants(marker) ==
    << marker,
       Replace(marker, <<"_">>, <<" ">>),
       Replace(marker, <<"_">>, <<>>),
       Lower(marker),
       Lower(Replace(marker, <<"_">>, <<" ">>)),
       Lower(Replace(marker, <<"_">>, <<>>)) >>

(***************************************************************************)
(* Segments, boxes and images                                              *)
(***************************************************************************)
Box(l, t, r, b) == [left |-> l, top |-> t, right |-> r, bottom |-> b]

PdfSegment(type, page, box, text) ==
    [segment_type |-> type, page_number |-> page, bounding_box |-> box, text_content |-> text]

\* an image object: the page it shows, the pixel box cropped from it (<<>> for
\* the whole page) and the placeholders drawn on it
PageImage(p) == [page |-> p, box |-> <<>>, placeholders |-> {}]

Max(a, b) == IF a >= b THEN a ELSE b
Min(a, b) == IF a <= b THEN a ELSE b

\* int(x * dpi / 72) for x >= 0
RoundToPixels(x, d) == (2 * x * d + PointsPerInch) \div (2 * PointsPerInch)
ToPixels(x, d) == (x * d) \div PointsPerInch

PixelBox(bbox, d) ==
    Box(ToPixels(bbox.left, d), ToPixels(bbox.top, d), ToPixels(bbox.right, d), ToPixels(bbox.bottom, d))

\* page_image.crop((left, top, right, bottom)): a new image of the cropped region
Crop(image, pxbox) == [page |-> image.page, box |-> pxbox, placeholders |-> image.placeholders]

\* the image object that holds page_image.crop(...).copy(): a fresh one, never the page's
CropView(page) == page
CropCopy(page) == CropId

ImageSize(image) == <<image.box.right - image.box.left, image.box.bottom - image.box.top>>

\* [segment for segment in predicted_segments if segment.segment_type == type], as indexes
RECURSIVE SelectType(_, _, _)
SelectType(segs, type, i) ==
    IF i > Len(segs) THEN <<>>
    ELSE (IF segs[i].segment_type = type THEN <<i>> ELSE <<>>) \o SelectType(segs, type, i + 1)

(***************************************************************************)
(* Formulas inside a table and their markers                               *)
(***************************************************************************)
\* (ol <= cx <= or_) and (ot <= cy <= ob) with cx = (il + ir) / 2.0, cy = (it + ib) / 2.0
BBoxFullyInside(inner, outer) ==
    /\ outer.left <= inner.left /\ inner.right <= outer.right
    /\ outer.top <= inner.top /\ inner.bottom <= outer.bottom
BBoxCenterInside(inner, outer) ==
    /\ 2 * outer.left <= inner.left + inner.right /\ inner.left + inner.right <= 2 * outer.right
    /\ 2 * outer.top <= inner.top + inner.bottom /\ inner.top + inner.bottom <= 2 * outer.bottom

RECURSIVE InTableFormulas(_, _, _)
InTableFormulas(segs, formulas, table) ==
    IF formulas = <<>> THEN <<>>
    ELSE LET f == segs[Head(formulas)]
         IN (IF /\ f.page_number = table.page_number
                /\ BBoxCenterInside(f.bounding_box, table.bounding_box)
             THEN <<Head(formulas)>> ELSE <<>>)
            \o InTableFormulas(segs, Tail(formulas), table)

\* the sort key (s.bounding_box.top, s.bounding_box.left), compared as a tuple
SortKeyLess(a, b) == a.top < b.top \/ (a.top = b.top /\ a.left < b.left)

\* list.sort is stable: x goes behind every element whose key is not greater
RECURSIVE InsertByKey(_, _, _)
InsertByKey(sorted, x, segs) ==
    IF sorted = <<>> THEN <<x>>
    ELSE IF SortKeyLess(segs[x].bounding_box, segs[Head(sorted)].bounding_box)
         THEN <<x>> \o sorted
         ELSE <<Head(sorted)>> \o InsertByKey(Tail(sorted), x, segs)

RECURSIVE SortFormulas(_, _)
SortFormulas(formulas, segs) ==
    IF formulas = <<>> THEN <<>>
    ELSE InsertByKey(SortFormulas(SubSeq(formulas, 1, Len(formulas) - 1), segs),
                     formulas[Len(formulas)], segs)

\* for idx, formula_segment in enumerate(in_table_formulas, start=1)
MarkerToFormula(in_table_formulas) ==
    [idx \in 1..Len(in_table_formulas) |->
        [marker |-> FormatMarker(idx), formula |-> in_table_formulas[idx]]]

\* list(marker_to_formula.keys())
ExpectedMarkers(binding) == [i \in 1..Len(binding) |-> binding[i].marker]

(***************************************************************************)
(* _draw_formula_placeholder: the box that is whitened, if any             *)
(***************************************************************************)
\* lines 56-59: points to pixels, shifted into crop coordinates
LocalPixelBox(origin, bbox, d) ==
    Box(ToPixels(bbox.left, d) - origin[1], ToPixels(bbox.top, d) - origin[2],
        ToPixels(bbox.right, d) - origin[1], ToPixels(bbox.bottom, d) - origin[2])

\* line 62: pad = max(2, int(min(width, height) * 0.05)); below 2 whenever the
\* smaller dimension is below 40, so int() of a negative product is never the maximum
PlaceholderPad(b) == Max(MinPad, (Min(b.right - b.left, b.bottom - b.top) * PadPercent) \div 100)

\* lines 63-66
Padded(b, pad) == Box(b.left - pad, b.top - pad, b.right + pad, b.bottom + pad)

\* lines 68-72
ClampToImage(size, b) ==
    Box(Max(0, Min(size[1] - 1, b.left)), Max(0, Min(size[2] - 1, b.top)),
        Max(0, Min(size[1], b.right)), Max(0, Min(size[2], b.bottom)))

PlaceholderBox(size, origin, bbox, d) ==
    LET local == LocalPixelBox(origin, bbox, d)
    IN ClampToImage(size, Padded(local, PlaceholderPad(local)))

\* line 73: if fr_px <= fl_px + 1 or fb_px <= ft_px + 1: return
EmptyBoxOnly(b) == b.right <= b.left \/ b.bottom <= b.top
DegenerateBox(b) == b.right <= b.left + 1 \/ b.bottom <= b.top + 1

\* line 83: font_size = max(16, min(64, int(box_h * 0.6)))
FontSize(b) == Max(MinFont, Min(MaxFont, ((b.bottom - b.top) * FontPercent) \div 100))

DrawFormulaPlaceholder(image, origin, bbox, d, marker) ==
    LET b == PlaceholderBox(ImageSize(image), origin, bbox, d)
    IN IF DegenerateBox(b)
       THEN image
       ELSE [image EXCEPT !.placeholders = @ \cup {[marker |-> marker, box |-> b]}]

RECURSIVE DrawPlaceholders(_, _, _, _, _)
DrawPlaceholders(image, origin, binding, segs, d) ==
    IF binding = <<>> THEN image
    ELSE DrawPlaceholders(
             DrawFormulaPlaceholder(image, origin, segs[Head(binding).formula].bounding_box,
                                    d, Head(binding).marker),
             origin, Tail(binding), segs, d)

(***************************************************************************)
(* Marker reconciliation                                                   *)
(***************************************************************************)
\* not html, or a marker of expected_markers that is not in html
Missing(expected, h) == {i \in 1..Len(expected) : ~In(expected[i], h)}

\* the two break statements of the retry loop (lines 167-174)
BreaksOnAnyHtml(h, expected) == h # <<>>
BreaksOnlyWithMarkers(h, expected) == h # <<>> /\ expected # <<>> /\ Missing(expected, h) = {}
RetryBreaks(h, expected) == h # <<>> /\ (expected = <<>> \/ Missing(expected, h) = {})

\* last_html after one attempt that did not break (lines 168, 175)
LastHtmlAfter(h, last) == h

\* html after the loop (lines 179-180)
AcceptedHtml(h, last) == IF h = <<>> THEN last ELSE h

\* if not html: continue (lines 181-182)
NeverSkipsTable(h) == FALSE
SkipsTable(h) == h = <<>>

\* for v in variants: if v in html: html = html.replace(v, latex)
RECURSIVE ReplaceVariants(_, _, _)
ReplaceVariants(h, variants, latex) ==
    IF variants = <<>> THEN h
    ELSE ReplaceVariants(IF In(Head(variants), h) THEN Replace(h, Head(variants), latex) ELSE h,
                         Tail(variants), latex)

\* latex = (formula_segment.text_content or "").strip()
Latex(segment) == Strip(segment.text_content)

\* for marker, formula_segment in marker_to_formula.items(): ... (lines 186-202)
RECURSIVE SubstituteMarkersNoSkip(_, _, _)
SubstituteMarkersNoSkip(h, binding, segs) ==
    IF binding = <<>> THEN h
    ELSE SubstituteMarkersNoSkip(
             ReplaceVariants(h, MarkerVariants(Head(binding).marker), Latex(segs[Head(binding).formula])),
             Tail(binding), segs)
RECURSIVE SubstituteMarkers(_, _, _)
SubstituteMarkers(h, binding, segs) ==
    IF binding = <<>> THEN h
    ELSE LET latex == Latex(segs[Head(binding).formula])
         IN SubstituteMarkers(
                IF latex = <<>> THEN h
                ELSE ReplaceVariants(h, MarkerVariants(Head(binding).marker), latex),
                Tail(binding), segs)

\* if not ori_ocr_res.txts: continue
NeverSkips(ocr_res) == FALSE
NoTextFound(ocr_res) == ocr_res.txts = <<>>

\* an exception of one iteration leaves extract_table_format: the remote loop
\* body is a try block (lines 118, 204-206), the local loop body is not
AlwaysPropagates(remote) == TRUE
ExceptionPropagates(remote) == ~remote

\* the value of pc after an iteration of a for loop over table_segments
AfterIteration(i, n, loop) == IF i < n THEN loop ELSE "done"

(***************************************************************************)
(* The async client of a thread (remote_ocr/vllm_openai_client.py)         *)
(***************************************************************************)
Threads == 1..NumThreads

\* getattr(_thread_local, "async_client", None)
NoClient == 0

\* _thread_local = threading.local(): the namespace a thread reads and writes
SharedSlot(thread) == 1
ThreadLocalSlot(thread) == thread

\* a thread outside _get_async_client, between two calls or awaiting a response
Outside == [pc |-> "outside", client |-> NoClient]

ClientsAtRest ==
    /\ thread_local = [t \in Threads |-> NoClient]
    /\ clients = <<>>
    /\ frames = [t \in Threads |-> Outside]
    /\ started = [t \in Threads |-> 0]
    /\ requests = <<>>

(***************************************************************************)
(* _strip_code_fences (remote_ocr/vllm_openai_client.py)                   *)
(***************************************************************************)
\* the triple backtick
Fence == "FENCE"

\* text.startswith(fence), text.endswith(fence)
StartsWithFence(text) == text # <<>> /\ Head(text) = Fence
EndsWithFence(text) == text # <<>> /\ text[Len(text)] = Fence

\* parts = text.split("\n", 1); parts[1] if len(parts) > 1 else ""
RECURSIVE AfterFirstLine(_)
AfterFirstLine(text) ==
    IF text = <<>> THEN <<>>
    ELSE IF Head(text) = "\n" THEN Tail(text)
    ELSE AfterFirstLine(Tail(text))

\* text.rstrip()[:-3] of a text whose rstrip() ends with the fence
WithoutLastFence(text) == SubSeq(RStrip(text), 1, Len(RStrip(text)) - 1)

\* lines 75-85
StripCodeFences(text) ==
    LET stripped == Strip(text)
        body == IF StartsWithFence(stripped)
                THEN LET rest == AfterFirstLine(stripped)
                     IN IF EndsWithFence(RStrip(rest)) THEN WithoutLastFence(rest) ELSE rest
                ELSE stripped
    IN Strip(Replace(body, <<"\n">>, <<>>))

\* response.choices[0].message.content or ""
ContentOrEmpty(msg) == IF msg.none THEN <<>> ELSE msg.content

NoMessage == [none |-> TRUE, content |-> <<>>]
NotReturned == [returned |-> FALSE, text |-> <<>>]

FencesAtRest == message = NoMessage /\ ocr_text = NotReturned

(***************************************************************************)
(* Inputs: documents, formula texts, mocked OCR results                    *)
(***************************************************************************)
Symbols == <<"x", "y", "z", "w">>
Symbol(k) == Symbols[((k - 1) % Len(Symbols)) + 1]

\* text_content of the k-th formula as the formula OCR step left it
FormulaTexts(k) ==
    { <<>>, <<" ">>, <<Symbol(k), "^", "2">>, <<" ", Symbol(k), "^", "2", " ">> }

\* n formulas side by side in the first table, listed right to left
FormulaBoxIn(k) == Box(40 * k - 30, 10, 40 * k - 10, 30)
FirstTable == PdfSegment("TABLE", 1, Box(0, 0, 40 * MaxFormulas, 40), <<>>)
Paragraph == PdfSegment("TEXT", 1, Box(0, 50, 80, 60), <<"t">>)
SecondTable(page) == PdfSegment("TABLE", page, Box(10, 10, 50, 30), <<>>)

FormulaList(n, texts) ==
    [j \in 1..n |-> PdfSegment("FORMULA", 1, FormulaBoxIn(n + 1 - j), texts[n + 1 - j])]

\* the documents with n formulas in the first table
TableDocument(n, texts) == FormulaList(n, texts) \o <<FirstTable, Paragraph, SecondTable(NumPages)>>

\* a document without tables, and one whose first table lies on a page that
\* was not rendered
OtherDocuments ==
    { <<Paragraph>>,
      <<SecondTable(NumPages + 1), Paragraph, SecondTable(NumPages)>> }

\* a one-row table of the given cells
RECURSIVE JoinCells(_)
JoinCells(cells) ==
    IF cells = <<>> THEN <<>>
    ELSE IF Len(cells) = 1 THEN Head(cells)
    ELSE Head(cells) \o <<"|">> \o JoinCells(Tail(cells))
Row(cells) == <<"<">> \o JoinCells(cells) \o <<">">>

PlainCell == <<"t">>
VariantCells(i) == { MarkerVariants(FormatMarker(i))[v] : v \in 1..6 }

\* what a backend answers while markers come and go: nothing, a table without
\* markers, a table with the first n markers
RetryOutputs ==
    { <<>>, Row(<<PlainCell, PlainCell>>) } \cup
    { Row([i \in 1..n |-> FormatMarker(i)]) : n \in 1..MaxFormulas }

\* what a backend answers when it misreads markers: two cells, the first with
\* a form of the first marker, the second with a form of the first or second
MisreadOutputs ==
    { Row(<<a, b>>) : a \in VariantCells(1) \cup {PlainCell},
                      b \in VariantCells(1) \cup VariantCells(2) \cup {PlainCell} }

\* a mocked backend is the set of results it may return
MockBackends == { RetryOutputs } \cup { {h} : h \in MisreadOutputs }

\* ocr_engine(table_image): boxes, txts, scores
LocalOcrResults ==
    { [boxes |-> <<>>, txts |-> <<>>, scores |-> <<>>],
      [boxes |-> <<Box(0, 0, 9, 9)>>, txts |-> <<"t">>, scores |-> <<1>>] }

NoImage == [page |-> 0, box |-> <<>>, placeholders |-> {}]
NoCall == [seg |-> 0, image |-> NoImage, ocr |-> <<>>, engine_args |-> <<>>, pred_html |-> <<>>]

(***************************************************************************)
(* State after the caller has built pdf_images and predicted_segments      *)
(***************************************************************************)
\* no crop is made and no placeholder is drawn
NoGeometry == [table |-> Box(0, 0, 0, 0), formula |-> Box(0, 0, 0, 0), dpi |-> PointsPerInch]
NoPlacement ==
    [returned |-> FALSE, local |-> Box(0, 0, 0, 0), pad |-> 0, box |-> Box(0, 0, 0, 0),
     drawn |-> FALSE, font_size |-> 0]

GeometryAtRest == geometry = NoGeometry /\ crop_image = NoImage /\ placement = NoPlacement

\* convert_to_format is not called
NoConfig == [output_format |-> "MARKDOWN", extract_toc |-> FALSE, output_file |-> FALSE]
NoImages == [none |-> TRUE, names |-> <<>>]

AssemblerAtRest ==
    /\ vgt_segments = <<>>
    /\ config = NoConfig
    /\ apc = "rest"
    /\ page_index = 0
    /\ position = 0
    /\ picture_id = 0
    /\ extracted_images = NoImages
    /\ content_parts = <<>>
    /\ produced = <<>>
    /\ content = <<>>

\* the other components before their first call
OthersAtRest == ClientsAtRest /\ FencesAtRest /\ GeometryAtRest /\ AssemblerAtRest

InitCall ==
    /\ segments0 = predicted_segments
    /\ images = [i \in 1..CropId |-> IF i <= NumPages THEN PageImage(i) ELSE NoImage]
    /\ pc = "start"
    /\ table_segments = <<>>
    /\ formula_segments = <<>>
    /\ ti = 0
    /\ table_image = 0
    /\ marker_to_formula = <<>>
    /\ attempt = 0
    /\ html = <<>>
    /\ last_html = <<>>
    /\ ocr_calls = <<>>
    /\ accepted = <<>>
    /\ outcome = <<>>
    /\ local_call = NoCall

Init ==
    /\ REMOTE_OCR_ENABLED \in BOOLEAN
    /\ backend \in (IF REMOTE_OCR_ENABLED THEN MockBackends ELSE {RetryOutputs})
    /\ \/ predicted_segments \in OtherDocuments
       \/ \E n \in 0..MaxFormulas :
            \E texts \in [1..n -> UNION {FormulaTexts(k) : k \in 1..n}] :
                /\ \A k \in 1..n : texts[k] \in FormulaTexts(k)
                /\ predicted_segments = TableDocument(n, texts)
    /\ dpi = 2 * PointsPerInch
    /\ InitCall
    /\ OthersAtRest

(***************************************************************************)
(* extract_table_format                                                    *)
(***************************************************************************)
\* lines 109-115 and 209-212
Start ==
    /\ pc = "start"
    /\ table_segments' = SelectType(predicted_segments, "TABLE", 1)
    /\ IF table_segments' = <<>>
       THEN pc' = "done" /\ UNCHANGED <<formula_segments, ti>>
       ELSE IF REMOTE_OCR_ENABLED
            THEN /\ formula_segments' = SelectType(predicted_segments, "FORMULA", 1)
                 /\ pc' = "table" /\ ti' = 1
            ELSE /\ pc' = "local" /\ ti' = 1
                 /\ UNCHANGED formula_segments
    /\ UNCHANGED <<otherVars, REMOTE_OCR_ENABLED, backend, predicted_segments, segments0, images, dpi,
                   table_image, marker_to_formula, attempt, html, last_html, ocr_calls,
                   accepted, outcome, local_call>>

\* an exception leaves the body of the current iteration
Unwind ==
    IF ExceptionPropagates(REMOTE_OCR_ENABLED)
    THEN /\ outcome' = Append(outcome, "raised")
         /\ pc' = "raised"
         /\ UNCHANGED ti
    ELSE /\ outcome' = Append(outcome, "caught")
         /\ pc' = AfterIteration(ti, Len(table_segments), "table")
         /\ ti' = ti + 1

\* the for loop goes to its next table
Continue(how) ==
    /\ outcome' = Append(outcome, how)
    /\ pc' = AfterIteration(ti, Len(table_segments), IF REMOTE_OCR_ENABLED THEN "table" ELSE "local")
    /\ ti' = ti + 1

\* lines 119-165: crop, find the formulas of the table, draw their placeholders
PrepareTable ==
    /\ pc = "table"
    /\ LET segment == predicted_segments[table_segments[ti]]
       IN IF segment.page_number \notin 1..NumPages
          THEN \* IndexError at line 119
               /\ Unwind
               /\ UNCHANGED <<images, table_image, marker_to_formula, attempt, html,
                              last_html, ocr_calls, accepted>>
          ELSE LET px == PixelBox(segment.bounding_box, dpi)
                   in_table_formulas ==
                       SortFormulas(InTableFormulas(predicted_segments, formula_segments, segment),
                                    predicted_segments)
                   binding == MarkerToFormula(in_table_formulas)
                   img == CropCopy(segment.page_number)
               IN /\ table_image' = img
                  /\ images' = [images EXCEPT ![img] =
                                   DrawPlaceholders(Crop(images[segment.page_number], px),
                                                    <<px.left, px.top>>, binding,
                                                    predicted_segments, dpi)]
                  /\ marker_to_formula' = binding
                  /\ html' = <<>>
                  /\ last_html' = <<>>
                  /\ attempt' = 1
                  /\ ocr_calls' = <<>>
                  /\ accepted' = <<>>
                  /\ pc' = "ocr"
                  /\ UNCHANGED <<ti, outcome>>
    /\ UNCHANGED <<otherVars, REMOTE_OCR_ENABLED, backend, predicted_segments, segments0, dpi,
                   table_segments, formula_segments, local_call>>

\* lines 166-178: one attempt of the retry loop
OcrAttempt ==
    /\ pc = "ocr"
    /\ \E result \in backend :
        /\ ocr_calls' = Append(ocr_calls, [image |-> images[table_image], result |-> result])
        /\ html' = result
        /\ IF RetryBreaks(result, ExpectedMarkers(marker_to_formula))
           THEN pc' = "accept" /\ UNCHANGED <<last_html, attempt>>
           ELSE /\ last_html' = LastHtmlAfter(result, last_html)
                /\ IF attempt < MaxAttempts
                   THEN attempt' = attempt + 1 /\ pc' = "ocr"
                   ELSE pc' = "accept" /\ UNCHANGED attempt
    /\ UNCHANGED <<otherVars, REMOTE_OCR_ENABLED, backend, predicted_segments, segments0, images, dpi,
                   table_segments, formula_segments, ti, table_image, marker_to_formula,
                   accepted, outcome, local_call>>

\* lines 179-182: fall back to last_html, skip the table when there is no html
AcceptHtml ==
    /\ pc = "accept"
    /\ html' = AcceptedHtml(html, last_html)
    /\ accepted' = html'
    /\ IF SkipsTable(html')
       THEN Continue("skipped")
       ELSE pc' = "subst" /\ UNCHANGED <<ti, outcome>>
    /\ UNCHANGED <<otherVars, REMOTE_OCR_ENABLED, backend, predicted_segments, segments0, images, dpi,
                   table_segments, formula_segments, table_image, marker_to_formula,
                   attempt, last_html, ocr_calls, local_call>>

\* lines 184-203: replace the markers, store the html in the table segment
SubstituteAndStore ==
    /\ pc = "subst"
    /\ html' = IF ExpectedMarkers(marker_to_formula) # <<>>
               THEN SubstituteMarkers(html, marker_to_formula, predicted_segments)
               ELSE html
    /\ predicted_segments' = [predicted_segments EXCEPT ![table_segments[ti]].text_content = html']
    /\ Continue("written")
    /\ UNCHANGED <<otherVars, REMOTE_OCR_ENABLED, backend, segments0, images, dpi, table_segments,
                   formula_segments, table_image, marker_to_formula, attempt, last_html,
                   ocr_calls, accepted, local_call>>

\* lines 215-228: one table in local mode
LocalTable ==
    /\ pc = "local"
    /\ \E ocr_res \in LocalOcrResults, pred_html \in backend :
        LET t == table_segments[ti]
            segment == predicted_segments[t]
        IN IF segment.page_number \notin 1..NumPages
           THEN \* IndexError at line 215
                Unwind /\ UNCHANGED <<predicted_segments, local_call>>
           ELSE LET crop == Crop(images[segment.page_number], PixelBox(segment.bounding_box, dpi))
                IN IF NoTextFound(ocr_res)
                   THEN /\ local_call' = [seg |-> t, image |-> crop, ocr |-> ocr_res,
                                          engine_args |-> <<>>, pred_html |-> <<>>]
                        /\ Continue("skipped")
                        /\ UNCHANGED predicted_segments
                   ELSE /\ local_call' =
                              [seg |-> t, image |-> crop, ocr |-> ocr_res,
                               engine_args |-> <<crop, <<ocr_res.boxes, ocr_res.txts, ocr_res.scores>> >>,
                               pred_html |-> pred_html]
                        /\ predicted_segments' = [predicted_segments EXCEPT ![t].text_content = pred_html]
                        /\ Continue("written")
    /\ UNCHANGED <<otherVars, REMOTE_OCR_ENABLED, backend, segments0, images, dpi, table_segments,
                   formula_segments, table_image, marker_to_formula, attempt, html, last_html,
                   ocr_calls, accepted>>

\* a call made by the iteration raises: PIL on the crop or the drawing, the
\* OCR client or engine (network error, timeout, malformed response)
Raise ==
    /\ pc \in {"table", "ocr", "accept", "subst", "local"}
    /\ Unwind
    /\ UNCHANGED <<otherVars, REMOTE_OCR_ENABLED, backend, predicted_segments, segments0, images, dpi,
                   table_segments, formula_segments, table_image, marker_to_formula,
                   attempt, html, last_html, ocr_calls, accepted, local_call>>

Next ==
    \/ Start
    \/ PrepareTable
    \/ OcrAttempt
    \/ AcceptHtml
    \/ SubstituteAndStore
    \/ LocalTable
    \/ Raise

Spec == Init /\ [][Next]_vars

(***************************************************************************)
(* The layout documents: one table and up to MaxFormulas square formulas   *)
(* around it, on its page or on the last page                              *)
(***************************************************************************)
LayoutTable == PdfSegment("TABLE", 1, Box(1, 1, MaxCoord, MaxCoord), <<>>)
LayoutFormula(l, t, page) == PdfSegment("FORMULA", page, Box(l, t, l + 2, t + 2), <<"x">>)
LayoutFormulas ==
    { LayoutFormula(l, t, page) : l \in 0..MaxCoord, t \in 0..MaxCoord, page \in {1, NumPages} }

InitLayout ==
    /\ REMOTE_OCR_ENABLED = TRUE
    /\ backend = RetryOutputs
    /\ \E n \in 0..MaxFormulas :
        \E formulas \in [1..n -> LayoutFormulas] :
            predicted_segments = formulas \o <<LayoutTable>>
    /\ dpi = 2 * PointsPerInch
    /\ InitCall
    /\ OthersAtRest

NextLayout ==
    \/ Start
    \/ PrepareTable

SpecLayout == InitLayout /\ [][NextLayout]_vars

(***************************************************************************)
(* ocr_table_html_async / ocr_formula_latex_async on several threads       *)
(***************************************************************************)
\* extract_table_format is not running
TableAtRest ==
    /\ REMOTE_OCR_ENABLED = TRUE
    /\ backend = {}
    /\ predicted_segments = <<>>
    /\ dpi = 2 * PointsPerInch
    /\ InitCall

InitClients ==
    TableAtRest /\ ClientsAtRest /\ FencesAtRest /\ GeometryAtRest /\ AssemblerAtRest

\* line 114 / 164: a coroutine of the thread's event loop enters _get_async_client;
\* there is no await in _get_async_client, so the thread runs one call of it at a time
CallAsync ==
    \E t \in Threads :
        /\ frames[t].pc = "outside"
        /\ started[t] < MaxCalls
        /\ started' = [started EXCEPT ![t] = @ + 1]
        /\ frames' = [frames EXCEPT ![t].pc = "getattr"]
        /\ UNCHANGED <<thread_local, clients, requests>>

\* lines 68-69: client = getattr(_thread_local, "async_client", None); if client is None
GetAttr ==
    \E t \in Threads :
        /\ frames[t].pc = "getattr"
        /\ LET client == thread_local[ThreadLocalSlot(t)]
           IN frames' = [frames EXCEPT ![t] =
                            [pc |-> IF client = NoClient THEN "construct" ELSE "return",
                             client |-> client]]
        /\ UNCHANGED <<thread_local, clients, started, requests>>

\* line 70: client = AsyncOpenAI(...)
Construct ==
    \E t \in Threads :
        /\ frames[t].pc = "construct"
        /\ clients' = Append(clients, t)
        /\ frames' = [frames EXCEPT ![t] = [pc |-> "store", client |-> Len(clients')]]
        /\ UNCHANGED <<thread_local, started, requests>>

\* line 71: _thread_local.async_client = client
Store ==
    \E t \in Threads :
        /\ frames[t].pc = "store"
        /\ thread_local' = [thread_local EXCEPT ![ThreadLocalSlot(t)] = frames[t].client]
        /\ frames' = [frames EXCEPT ![t].pc = "return"]
        /\ UNCHANGED <<clients, started, requests>>

\* lines 72, 115 / 165: return client; await client.chat.completions.create(...):
\* the request goes out on the client and the coroutine is suspended
Request ==
    \E t \in Threads :
        /\ frames[t].pc = "return"
        /\ requests' = Append(requests, [thread |-> t, client |-> frames[t].client])
        /\ frames' = [frames EXCEPT ![t] = Outside]
        /\ UNCHANGED <<thread_local, clients, started>>

NextClients ==
    \/ CallAsync /\ UNCHANGED <<tableVars, fenceVars, geometryVars, assemblerVars>>
    \/ GetAttr /\ UNCHANGED <<tableVars, fenceVars, geometryVars, assemblerVars>>
    \/ Construct /\ UNCHANGED <<tableVars, fenceVars, geometryVars, assemblerVars>>
    \/ Store /\ UNCHANGED <<tableVars, fenceVars, geometryVars, assemblerVars>>
    \/ Request /\ UNCHANGED <<tableVars, fenceVars, geometryVars, assemblerVars>>

SpecClients == InitClients /\ [][NextClients]_vars

(***************************************************************************)
(* The text ocr_table_html, ocr_formula_latex and their awaitable forms    *)
(* return for a response of the backend                                    *)
(***************************************************************************)
\* the characters of a response: a fence, a line feed, a blank, any other character
ResponseChars == {Fence, "\n", " ", "h"}

InitFences ==
    /\ TableAtRest /\ ClientsAtRest /\ GeometryAtRest /\ AssemblerAtRest
    /\ \/ message = NoMessage
       \/ \E n \in 0..MaxText :
            \E text \in [1..n -> ResponseChars] :
                message = [none |-> FALSE, content |-> text]
    /\ ocr_text = NotReturned

\* lines 110, 135, 160, 185: return _strip_code_fences(response.choices[0].message.content or "")
ReturnOcrText ==
    /\ ~ocr_text.returned
    /\ ocr_text' = [returned |-> TRUE, text |-> StripCodeFences(ContentOrEmpty(message))]
    /\ UNCHANGED <<message, tableVars, clientVars, geometryVars, assemblerVars>>

NextFences == ReturnOcrText

SpecFences == InitFences /\ [][NextFences]_vars

(***************************************************************************)
(* One table crop and one formula placeholder, for boxes of any size and   *)
(* place (lines 119-128 and _draw_formula_placeholder, lines 40-84)        *)
(***************************************************************************)
\* coordinates in points of the table box and of the formula box
TablePoints == {0, 72, 144}
FormulaPoints == {0, 1, 36, 73, 144}
Resolutions == {72, 144, 200}

InitGeometry ==
    /\ TableAtRest /\ ClientsAtRest /\ FencesAtRest /\ AssemblerAtRest
    /\ \E tl, tt, tr, tb \in TablePoints, fl, ft, fr, fb \in FormulaPoints, d \in Resolutions :
          /\ tl <= tr /\ tt <= tb /\ fl <= fr /\ ft <= fb
          /\ geometry = [table |-> Box(tl, tt, tr, tb), formula |-> Box(fl, ft, fr, fb), dpi |-> d]
    /\ crop_image = NoImage
    /\ placement = NoPlacement

\* lines 119-128: the crop of the table box from its page image
CropTable ==
    /\ crop_image = NoImage
    /\ crop_image' = Crop(PageImage(1), PixelBox(geometry.table, geometry.dpi))
    /\ UNCHANGED <<geometry, placement>>

\* lines 148-158 and 40-84: _draw_formula_placeholder on the crop
DrawPlaceholder ==
    /\ crop_image # NoImage
    /\ ~placement.returned
    /\ LET origin == <<crop_image.box.left, crop_image.box.top>>
           local == LocalPixelBox(origin, geometry.formula, geometry.dpi)
           box == PlaceholderBox(ImageSize(crop_image), origin, geometry.formula, geometry.dpi)
       IN /\ crop_image' = DrawFormulaPlaceholder(crop_image, origin, geometry.formula,
                                                   geometry.dpi, FormatMarker(1))
          /\ placement' = [returned |-> TRUE, local |-> local, pad |-> PlaceholderPad(local),
                            box |-> box, drawn |-> ~DegenerateBox(box),
                            font_size |-> IF DegenerateBox(box) THEN 0 ELSE FontSize(box)]
    /\ UNCHANGED geometry

NextGeometry ==
    \/ CropTable /\ UNCHANGED <<tableVars, clientVars, fenceVars, assemblerVars>>
    \/ DrawPlaceholder /\ UNCHANGED <<tableVars, clientVars, fenceVars, assemblerVars>>

SpecGeometry == InitGeometry /\ [][NextGeometry]_vars

(***************************************************************************)
(* The markup assembler (markup_conversion/pdf_to_markup_service_adapter)  *)
(*                                                                         *)
(* A segment carries the contents of the tokens of its page that lie in    *)
(* it (tokens_in_seg).  Tokens are plain: the token styles of the          *)
(* pdf_features library leave their content as it is; a title is written  *)
(* "<h>...</h>" in HTML and "# ..." in Markdown.  "Table of Contents" is   *)
(* one character.                                                          *)
(***************************************************************************)
BlankLine == <<"\n", "\n">>

SegmentBox(type, page, top, text, tokens) ==
    [type |-> type, page_number |-> page, top |-> top, text |-> text, tokens |-> tokens]

\* " ".join(contents)
RECURSIVE JoinWithBlanks(_)
JoinWithBlanks(contents) ==
    IF contents = <<>> THEN <<>>
    ELSE IF Len(contents) = 1 THEN Head(contents)
    ELSE Head(contents) \o <<" ">> \o JoinWithBlanks(Tail(contents))

\* "".join(content_parts)
RECURSIVE JoinParts(_)
JoinParts(parts) == IF parts = <<>> THEN <<>> ELSE Head(parts) \o JoinParts(Tail(parts))

\* lines 150-180
ProcessPictureSegment(segment, id, extracted) ==
    IF extracted.none THEN <<>>
    ELSE <<"<img src='", "doc", "_pictures/", "doc", "_">> \o Decimal(segment.page_number)
             \o <<"_">> \o Decimal(id) \o <<".png", "' alt=''>">> \o BlankLine

\* line 179: extracted_images.append(...)
ExtractedAfter(segment, id, extracted) ==
    IF extracted.none THEN extracted
    ELSE [extracted EXCEPT !.names =
             Append(@, <<"doc", "_">> \o Decimal(segment.page_number) \o <<"_">> \o Decimal(id) \o <<".png">>)]

\* lines 182-183
ProcessTableSegmentBare(segment) == segment.text
ProcessTableSegment(segment) == segment.text \o BlankLine

\* lines 203-213
ProcessTitleSegment(tokens, segment, format) ==
    IF tokens = <<>> THEN <<>>
    ELSE LET joined == JoinWithBlanks(tokens)
         IN (IF format = "HTML" THEN <<"<h>">> \o joined \o <<"</h>">> ELSE <<"#", " ">> \o joined)
                \o BlankLine

\* lines 215-219
ProcessRegularSegment(tokens, segment) ==
    IF tokens = <<>> THEN <<>> ELSE JoinWithBlanks(tokens) \o BlankLine

\* line 275: segment.text + "\n\n"
ProcessFormulaSegment(segment) == segment.text \o BlankLine

\* lines 262-278: the producer a segment is dispatched to
Producer(type) ==
    IF type = "PICTURE" THEN "picture"
    ELSE IF type = "TABLE" THEN "table"
    ELSE IF type \in {"TITLE", "SECTION_HEADER"} THEN "title"
    ELSE IF type = "FORMULA" THEN "formula"
    ELSE "regular"

Fragment(segment, id, extracted, format) ==
    CASE Producer(segment.type) = "picture" -> ProcessPictureSegment(segment, id, extracted)
      [] Producer(segment.type) = "table" -> ProcessTableSegment(segment)
      [] Producer(segment.type) = "title" -> ProcessTitleSegment(segment.tokens, segment, format)
      [] Producer(segment.type) = "formula" -> ProcessFormulaSegment(segment)
      [] OTHER -> ProcessRegularSegment(segment.tokens, segment)

\* segment.text.split()[0].count(".") for a text that is not blank
RECURSIVE FirstWordDots(_)
FirstWordDots(text) ==
    IF text = <<>> \/ Head(text) \in Whitespace THEN 0
    ELSE (IF Head(text) = "." THEN 1 ELSE 0) + FirstWordDots(Tail(text))

\* "  " * indentation
RECURSIVE Indentation(_)
Indentation(n) == IF n <= 0 THEN <<>> ELSE <<" ", " ">> \o Indentation(n - 1)

\* lines 221-232
RECURSIVE TocLines(_)
TocLines(segs) ==
    IF segs = <<>> THEN <<>>
    ELSE LET segment == Head(segs)
         IN (IF segment.type \notin {"TITLE", "SECTION_HEADER"} \/ Strip(segment.text) = <<>>
             THEN <<>>
             ELSE Indentation(Max(0, FirstWordDots(LStrip(segment.text)) - 1))
                      \o <<"-", " ">> \o segment.text \o <<"\n">>)
            \o TocLines(Tail(segs))
GetTableOfContents(segs) ==
    <<"#", " ", "Table of Contents">> \o BlankLine \o TocLines(segs) \o <<"\n">> \o BlankLine

\* line 256: [s for s in vgt_segments if s.page_number == page.page_number], as indexes
RECURSIVE SegmentsFrom(_, _, _)
SegmentsFrom(segs, page, i) ==
    IF i > Len(segs) THEN <<>>
    ELSE (IF segs[i].page_number = page THEN <<i>> ELSE <<>>) \o SegmentsFrom(segs, page, i + 1)
RECURSIVE InsertByTop(_, _, _)
InsertByTop(sorted, i, segs) ==
    IF sorted = <<>> THEN <<i>>
    ELSE IF segs[i].top < segs[Head(sorted)].top THEN <<i>> \o sorted
    ELSE <<Head(sorted)>> \o InsertByTop(Tail(sorted), i, segs)
RECURSIVE SortByTop(_, _)
SortByTop(indexes, segs) ==
    IF indexes = <<>> THEN <<>>
    ELSE InsertByTop(SortByTop(SubSeq(indexes, 1, Len(indexes) - 1), segs), indexes[Len(indexes)], segs)
SegmentsInPageByTop(segs, page) == SortByTop(SegmentsFrom(segs, page, 1), segs)
SegmentsInPage(segs, page) == SegmentsFrom(segs, page, 1)

\* the segments a caller may hand over, before their place in the list is known
TitleTokens == << <<"1", ".", "1">>, <<"T">> >>
HeaderTokens == << <<"S">> >>
TextTokens == << <<"a">>, <<"b">> >>
SegmentKinds ==
    UNION { { SegmentBox("PICTURE", page, 0, <<>>, <<>>),
              SegmentBox("TABLE", page, 0, <<"<", "t", ">">>, <<>>),
              SegmentBox("FORMULA", page, 0, <<"x">>, <<>>),
              SegmentBox("TITLE", page, 0, JoinWithBlanks(TitleTokens), TitleTokens),
              SegmentBox("TITLE", page, 0, <<" ">>, <<>>),
              SegmentBox("SECTION_HEADER", page, 0, JoinWithBlanks(HeaderTokens), HeaderTokens),
              SegmentBox("SECTION_HEADER", page, 0, <<>>, <<>>),
              SegmentBox("TEXT", page, 0, JoinWithBlanks(TextTokens), TextTokens),
              SegmentBox("TEXT", page, 0, <<>>, <<>>) } : page \in {1, NumPages} }

\* the list is in the caller's order, here from the bottom of a page to its top
InitAssembler ==
    /\ TableAtRest /\ ClientsAtRest /\ FencesAtRest /\ GeometryAtRest
    /\ \E n \in 0..MaxSegments :
          \E segs \in [1..n -> SegmentKinds] :
              vgt_segments = [i \in 1..n |-> [segs[i] EXCEPT !.top = n - i]]
    /\ \E format \in {"HTML", "MARKDOWN"}, toc \in BOOLEAN, file \in BOOLEAN :
          config = [output_format |-> format, extract_toc |-> toc, output_file |-> file]
    /\ apc = "start"
    /\ page_index = 0
    /\ position = 0
    /\ picture_id = 0
    /\ extracted_images = NoImages
    /\ content_parts = <<>>
    /\ produced = <<>>
    /\ content = <<>>

\* lines 46-47, 247-257: extracted_images, the table of contents, the first page
EnterPages ==
    /\ apc = "start"
    /\ extracted_images' = IF config.output_file THEN [none |-> FALSE, names |-> <<>>] ELSE NoImages
    /\ content_parts' = IF config.extract_toc THEN <<GetTableOfContents(vgt_segments)>> ELSE <<>>
    /\ page_index' = 1
    /\ position' = 1
    /\ picture_id' = 0
    /\ apc' = "page"
    /\ UNCHANGED <<vgt_segments, config, produced, content>>

\* lines 258-278: one segment of the page
AppendPart ==
    /\ apc = "page"
    /\ position <= Len(SegmentsInPage(vgt_segments, page_index))
    /\ LET i == SegmentsInPage(vgt_segments, page_index)[position]
           segment == vgt_segments[i]
           picture == Producer(segment.type) = "picture"
           fragment == Fragment(segment, picture_id, extracted_images, config.output_format)
       IN /\ content_parts' = Append(content_parts, fragment)
          /\ produced' = Append(produced, [segment |-> i, producer |-> Producer(segment.type),
                                           fragment |-> fragment])
          /\ picture_id' = IF picture THEN picture_id + 1 ELSE picture_id
          /\ extracted_images' = IF picture THEN ExtractedAfter(segment, picture_id, extracted_images)
                                 ELSE extracted_images
    /\ position' = position + 1
    /\ UNCHANGED <<vgt_segments, config, apc, page_index, content>>

\* lines 255-257: the next page of pdf_features.pages, or the end of the loop
NextPage ==
    /\ apc = "page"
    /\ position > Len(SegmentsInPage(vgt_segments, page_index))
    /\ IF page_index < NumPages
       THEN page_index' = page_index + 1 /\ position' = 1 /\ picture_id' = 0 /\ UNCHANGED apc
       ELSE apc' = "join" /\ UNCHANGED <<page_index, position, picture_id>>
    /\ UNCHANGED <<vgt_segments, config, extracted_images, content_parts, produced, content>>

\* lines 280, 52: return content_parts; content = "".join(content_parts)
JoinContent ==
    /\ apc = "join"
    /\ content' = JoinParts(content_parts)
    /\ apc' = "returned"
    /\ UNCHANGED <<vgt_segments, config, page_index, position, picture_id, extracted_images,
                   content_parts, produced>>

NextAssembler ==
    \/ EnterPages /\ UNCHANGED <<tableVars, clientVars, fenceVars, geometryVars>>
    \/ AppendPart /\ UNCHANGED <<tableVars, clientVars, fenceVars, geometryVars>>
    \/ NextPage /\ UNCHANGED <<tableVars, clientVars, fenceVars, geometryVars>>
    \/ JoinContent /\ UNCHANGED <<tableVars, clientVars, fenceVars, geometryVars>>

SpecAssembler == InitAssembler /\ [][NextAssembler]_vars

(***************************************************************************)
(* Vocabulary of the properties                                            *)
(***************************************************************************)
\* the last iteration that ended, ended this way
Finished(how) == outcome # <<>> /\ outcome[Len(outcome)] = how

\* the table segment of the remote iteration whose locals are current
CurrentTable ==
    IF pc \in {"ocr", "accept", "subst"} THEN table_segments[ti]
    ELSE table_segments[Len(outcome)]

\* the latest remote iteration has ended, and ended that way
Ended(how) == pc \in {"table", "done"} /\ Finished(how)

\* the remote iteration has left its retry loop
LoopLeft == pc \in {"accept", "subst"} \/ Ended("written") \/ Ended("skipped")

\* html after the loop has been settled (lines 179-182 have run)
Settled == pc = "subst" \/ Ended("written") \/ Ended("skipped")

Expected == [i \in 1..Len(marker_to_formula) |-> marker_to_formula[i].marker]

\* an attempt's result is non-empty and contains every expected marker literally
Complete(h) == h # <<>> /\ \A i \in 1..Len(Expected) : In(Expected[i], h)

\* the result of the latest attempt that returned non-empty html
RECURSIVE LatestNonEmpty(_)
LatestNonEmpty(calls) ==
    IF calls = <<>> THEN <<>>
    ELSE IF calls[Len(calls)].result # <<>> THEN calls[Len(calls)].result
    ELSE LatestNonEmpty(SubSeq(calls, 1, Len(calls) - 1))

\* a text without its leading and trailing blanks
Blank(text) == \A i \in 1..Len(text) : text[i] = " "
Trimmed(text) ==
    IF Blank(text) THEN <<>>
    ELSE LET first == CHOOSE i \in 1..Len(text) : text[i] # " " /\ \A j \in 1..(i - 1) : text[j] = " "
             last == CHOOSE i \in 1..Len(text) : text[i] # " " /\ \A j \in (i + 1)..Len(text) : text[j] = " "
         IN SubSeq(text, first, last)

\* the text of the formula bound to the i-th marker
BoundText(i) == predicted_segments[marker_to_formula[i].formula].text_content

\* the six forms of the i-th marker, written out
Forms(i) ==
    LET d == ZeroPad(Decimal(i), 3)
    IN << <<"F", "_">> \o d, <<"F", " ">> \o d, <<"F">> \o d,
          <<"f", "_">> \o d, <<"f", " ">> \o d, <<"f">> \o d >>

\* one pass over h: every occurrence of a pattern of rules is replaced by its text
RECURSIVE Rewrite(_, _)
Rewrite(h, rules) ==
    IF h = <<>> THEN <<>>
    ELSE LET hits == {r \in rules : Len(r.old) <= Len(h) /\ SubSeq(h, 1, Len(r.old)) = r.old}
         IN IF hits = {} THEN <<Head(h)>> \o Rewrite(Tail(h), rules)
            ELSE LET r == CHOOSE x \in hits : TRUE
                 IN r.new \o Rewrite(SubSeq(h, Len(r.old) + 1, Len(h)), rules)

\* the number of occurrences of sub in h
RECURSIVE Occurrences(_, _)
Occurrences(sub, h) ==
    IF Len(h) < Len(sub) THEN 0
    ELSE (IF SubSeq(h, 1, Len(sub)) = sub THEN 1 ELSE 0) + Occurrences(sub, Tail(h))

\* the text_content of the table of the current remote iteration
TableText == predicted_segments[CurrentTable].text_content

(***************************************************************************)
(* C1: in remote mode, for a table with at least one expected marker, OCR  *)
(* is called on the same masked image exactly k times, k being the first   *)
(* attempt (1..3) whose result is non-empty and has every marker, or 3 if  *)
(* there is none; never a 4th time; and the result of attempt k is the     *)
(* html that is accepted.                                                  *)
(***************************************************************************)
C1_RetryBound ==
    (REMOTE_OCR_ENABLED /\ marker_to_formula # <<>> /\ (pc = "ocr" \/ LoopLeft)) =>
        LET n == Len(ocr_calls)
        IN /\ n <= 3
           /\ \A i \in 1..n : ocr_calls[i].image = images[table_image]
           /\ \A i \in 1..(n - 1) : ~Complete(ocr_calls[i].result)
           /\ pc = "ocr" => (n < 3 /\ \A i \in 1..n : ~Complete(ocr_calls[i].result))
           /\ LoopLeft => (n >= 1 /\ (n = 3 \/ Complete(ocr_calls[n].result)))
           /\ (Settled /\ Complete(ocr_calls[n].result)) => accepted = ocr_calls[n].result

\* markers are missing on calls 1 and 2 and present on call 3: three calls, the third accepted
C1_Witness ==
    /\ REMOTE_OCR_ENABLED /\ pc = "subst" /\ Len(marker_to_formula) = 2
    /\ Len(ocr_calls) = 3
    /\ ocr_calls[1].result # <<>> /\ ~Complete(ocr_calls[1].result)
    /\ ocr_calls[2].result # <<>> /\ ~Complete(ocr_calls[2].result)
    /\ Complete(ocr_calls[3].result)
    /\ accepted = ocr_calls[3].result

(***************************************************************************)
(* C2: in remote mode, when none of the 3 attempts returns html with every *)
(* expected marker, the html accepted is the result of the latest attempt  *)
(* that returned non-empty html, nothing is raised, and the table is       *)
(* skipped only if all three attempts returned empty html.                 *)
(***************************************************************************)
C2_LatestNonEmptyAccepted ==
    (/\ REMOTE_OCR_ENABLED /\ marker_to_formula # <<>> /\ Settled
     /\ Len(ocr_calls) = 3
     /\ \A i \in 1..3 : ~Complete(ocr_calls[i].result)) =>
        /\ accepted = LatestNonEmpty(ocr_calls)
        /\ Finished("skipped") => \A i \in 1..3 : ocr_calls[i].result = <<>>

C4_OneVariantReplaced ==
    (REMOTE_OCR_ENABLED /\ marker_to_formula # <<>> /\ Finished("written")) =>
        \A i \in 1..Len(Expected) :
            ~Blank(BoundText(i)) =>
                \A v \in 1..6 :
                    In(Forms(i)[v], accepted) =>
                        IF \E u \in 1..(v - 1) : In(Forms(i)[u], accepted)
                        THEN Occurrences(Forms(i)[v], TableText) = Occurrences(Forms(i)[v], accepted)
                        ELSE ~In(Forms(i)[v], TableText)

(***************************************************************************)
(* C5: a marker whose bound formula has empty or blank text_content is     *)
(* left verbatim in the final html, none of its occurrences or forms is    *)
(* altered, and the markers of the other formulas of the table are still   *)
(* substituted.                                                            *)
(***************************************************************************)
C5_BlankTextKeepsMarker ==
    (REMOTE_OCR_ENABLED /\ marker_to_formula # <<>> /\ Finished("written")) =>
        /\ TableText = Rewrite(accepted, {[old |-> Forms(i)[v], new |-> Trimmed(BoundText(i))] :
                                            i \in {j \in 1..Len(Expected) : ~Blank(BoundText(j))},
                                            v \in 1..6})
        /\ \A i \in 1..Len(Expected) :
             IF Blank(BoundText(i))
             THEN \A v \in 1..6 :
                     Occurrences(Forms(i)[v], TableText) = Occurrences(Forms(i)[v], accepted)
             ELSE \A v \in 1..6 : ~In(Forms(i)[v], TableText)

\* the first formula has no text and its marker stays, the second is substituted
C5_Witness ==
    /\ REMOTE_OCR_ENABLED /\ Finished("written") /\ Len(marker_to_formula) = 2
    /\ Blank(BoundText(1)) /\ BoundText(2) = <<"y", "^", "2">>
    /\ accepted = <<"<", "F", "_", "0", "0", "1", "|", "F", "_", "0", "0", "2", ">">>
    /\ TableText = <<"<", "F", "_", "0", "0", "1", "|", "y", "^", "2", ">">>

(***************************************************************************)
(* C6: the binding of a table maps FORMULA_001, FORMULA_002, ... (from 1,  *)
(* three digits, no gaps) to exactly the FORMULA segments of the table's   *)
(* page whose centre lies inside the table's box, borders included, in     *)
(* ascending (top, left) order; formulas of other pages or with the centre *)
(* outside are never bound.                                                *)
(***************************************************************************)
C6_MarkerBinding ==
    (REMOTE_OCR_ENABLED /\ pc = "ocr") =>
        LET table == predicted_segments[table_segments[ti]]
            tb == table.bounding_box
            box(j) == predicted_segments[j].bounding_box
            inside == { j \in DOMAIN predicted_segments :
                          /\ predicted_segments[j].segment_type = "FORMULA"
                          /\ predicted_segments[j].page_number = table.page_number
                          /\ 2 * tb.left <= box(j).left + box(j).right
                          /\ box(j).left + box(j).right <= 2 * tb.right
                          /\ 2 * tb.top <= box(j).top + box(j).bottom
                          /\ box(j).top + box(j).bottom <= 2 * tb.bottom }
            n == Len(marker_to_formula)
            bound(i) == box(marker_to_formula[i].formula)
        IN /\ { marker_to_formula[i].formula : i \in 1..n } = inside
           /\ n = Cardinality(inside)
           /\ \A i \in 1..n :
                marker_to_formula[i].marker =
                    <<"F", "_", "0", "0", <<"1", "2", "3", "4", "5", "6", "7", "8", "9">>[i]>>
           /\ \A i \in 1..(n - 1) :
                \/ bound(i).top < bound(i + 1).top
                \/ bound(i).top = bound(i + 1).top /\ bound(i).left <= bound(i + 1).left

\* two formulas of equal top, listed right to left, the left one reaching over the table's edge
C6_Witness ==
    /\ REMOTE_OCR_ENABLED /\ pc = "ocr" /\ Len(marker_to_formula) = 2
    /\ marker_to_formula[1].formula = 2 /\ marker_to_formula[2].formula = 1
    /\ predicted_segments[1].bounding_box.top = predicted_segments[2].bounding_box.top
    /\ predicted_segments[2].bounding_box.left < predicted_segments[1].bounding_box.left
    /\ predicted_segments[2].bounding_box.left < predicted_segments[3].bounding_box.left

(***************************************************************************)
(* C7: in remote mode an exception raised at any step of one table's       *)
(* processing is caught, leaves that table's text_content as it was, and   *)
(* every later table is still processed; extract_table_format returns      *)
(* normally.                                                               *)
(***************************************************************************)
C7_RemoteIsolation ==
    REMOTE_OCR_ENABLED =>
        /\ pc # "raised"
        /\ \A k \in 1..Len(outcome) :
             outcome[k] = "caught" =>
                 predicted_segments[table_segments[k]].text_content
                     = segments0[table_segments[k]].text_content
        /\ pc = "done" => Len(outcome) = Len(table_segments)
        /\ pc \in {"table", "ocr", "accept", "subst"} =>
             (ti = Len(outcome) + 1 /\ ti <= Len(table_segments))

\* the first table raised, the second was processed and written
C7_Witness ==
    /\ REMOTE_OCR_ENABLED /\ pc = "done" /\ outcome = <<"caught", "written">>
    /\ predicted_segments[table_segments[2]].text_content # <<>>

(***************************************************************************)
(* C8: in either mode, no exception of one table's processing leaves       *)
(* extract_table_format or keeps the remaining tables from being           *)
(* processed.                                                              *)
(***************************************************************************)
C8_IsolationInBothModes ==
    /\ pc # "raised"
    /\ pc = "done" => Len(outcome) = Len(table_segments)

(***************************************************************************)
(* C9: processing a table changes nothing but that table's text_content:   *)
(* the page rasters, the text_content of every FORMULA segment and of      *)
(* every other table segment stay as they are.                             *)
(***************************************************************************)
C9_Frame ==
    [][ /\ \A p \in 1..NumPages : images'[p] = images[p]
        /\ \A i \in DOMAIN predicted_segments :
             predicted_segments'[i] # predicted_segments[i] =>
                 /\ pc \in {"subst", "local"}
                 /\ i = table_segments[ti]
                 /\ predicted_segments[i].segment_type = "TABLE"
                 /\ predicted_segments'[i] =
                        [predicted_segments[i] EXCEPT !.text_content = predicted_segments'[i].text_content]
      ]_vars

\* placeholders were drawn on the crop and the table's html was stored
C9_Witness ==
    /\ REMOTE_OCR_ENABLED /\ Finished("written")
    /\ Cardinality(images[CropId].placeholders) = 2
    /\ outcome = <<"written">>
    /\ TableText # segments0[CurrentTable].text_content

(***************************************************************************)
(* C10: in local mode, a table whose text-line OCR finds no fragments      *)
(* keeps its text_content, raises nothing and does not stop the following  *)
(* tables; any other table gets the html the table engine produced from    *)
(* the crop and the (boxes, txts, scores) result.                          *)
(***************************************************************************)
C10_LocalMode ==
    (~REMOTE_OCR_ENABLED /\ local_call.seg # 0) =>
        LET t == local_call.seg
            b == predicted_segments[t].bounding_box
            crop == [page |-> predicted_segments[t].page_number,
                     box |-> [left |-> (b.left * dpi) \div 72, top |-> (b.top * dpi) \div 72,
                              right |-> (b.right * dpi) \div 72, bottom |-> (b.bottom * dpi) \div 72],
                     placeholders |-> {}]
        IN /\ local_call.image = crop
           /\ IF local_call.ocr.txts = <<>>
              THEN /\ predicted_segments[t].text_content = segments0[t].text_content
                   /\ local_call.engine_args = <<>>
              ELSE /\ predicted_segments[t].text_content = local_call.pred_html
                   /\ local_call.engine_args =
                          <<crop, <<local_call.ocr.boxes, local_call.ocr.txts, local_call.ocr.scores>> >>
           /\ Finished("skipped") =>
                pc = (IF Len(outcome) < Len(table_segments) THEN "local" ELSE "done")

\* the first table had no fragments, the second got the engine's html
C10_Witness ==
    /\ ~REMOTE_OCR_ENABLED /\ pc = "done" /\ outcome = <<"skipped", "written">>
    /\ predicted_segments[table_segments[1]].text_content = <<>>
    /\ predicted_segments[table_segments[2]].text_content = local_call.pred_html
    /\ local_call.pred_html # <<>>

(***************************************************************************)
(* C11 as stated: in remote mode, for a table with no contained formula,   *)
(* OCR is called exactly once whatever it returns, empty html included;    *)
(* nothing is retried and nothing is substituted.                          *)
(***************************************************************************)
C11_SingleCallWithoutFormulas ==
    (REMOTE_OCR_ENABLED /\ marker_to_formula = <<>> /\ LoopLeft) =>
        /\ Len(ocr_calls) = 1
        /\ Ended("written") => TableText = ocr_calls[1].result

(***************************************************************************)
(* C11: in remote mode, for a table with no contained formula, OCR is      *)
(* called again only after an empty result and at most 3 times, so exactly *)
(* once when the first result is non-empty; the first non-empty result is  *)
(* stored as text_content as it is, with no marker check and no            *)
(* substitution, and the table keeps its text_content when all three       *)
(* results are empty.                                                      *)
(***************************************************************************)
C11_RetryOnEmptyOnly ==
    (REMOTE_OCR_ENABLED /\ marker_to_formula = <<>> /\ (pc = "ocr" \/ LoopLeft)) =>
        LET n == Len(ocr_calls)
        IN /\ n <= 3
           /\ \A i \in 1..(n - 1) : ocr_calls[i].result = <<>>
           /\ pc = "ocr" => (n < 3 /\ \A i \in 1..n : ocr_calls[i].result = <<>>)
           /\ LoopLeft => (n >= 1 /\ (n = 3 \/ ocr_calls[n].result # <<>>))
           /\ Settled => accepted = ocr_calls[n].result
           /\ Ended("written") => (accepted # <<>> /\ TableText = accepted)
           /\ Ended("skipped") =>
                 (accepted = <<>> /\ n = 3 /\ TableText = segments0[CurrentTable].text_content)

\* a table without formulas: two empty results, the third is stored as it is
C11_Witness ==
    /\ REMOTE_OCR_ENABLED /\ marker_to_formula = <<>>
    /\ Ended("written") /\ Len(ocr_calls) = 3
    /\ ocr_calls[1].result = <<>> /\ ocr_calls[2].result = <<>>
    /\ TableText = ocr_calls[3].result /\ TableText # <<>>

(***************************************************************************)
(* C18: in remote mode a table segment's text_content is assigned at most  *)
(* once in a call, by the iteration of that table and after its retry loop *)
(* and its marker substitution are over; the value assigned is the         *)
(* substituted html and is never empty; an iteration that accepted no      *)
(* non-empty html assigns nothing.                                         *)
(***************************************************************************)
C18_WrittenOnceNonEmpty ==
    [][ REMOTE_OCR_ENABLED =>
          /\ predicted_segments' # predicted_segments => outcome' = Append(outcome, "written")
          /\ outcome' = Append(outcome, "written") =>
                LET i == table_segments[ti]
                IN /\ pc = "subst" /\ pc' \in {"table", "done"}
                   /\ Len(outcome) = ti - 1 /\ ti' = ti + 1
                   /\ \A j \in 1..(ti - 1) : table_segments[j] # i
                   /\ 1 <= Len(ocr_calls) /\ Len(ocr_calls) <= 3
                   /\ accepted # <<>>
                   /\ predicted_segments'[i].text_content = html'
                   /\ predicted_segments'[i].text_content # <<>>
                   /\ \A m \in 1..Len(marker_to_formula) :
                        ~Blank(BoundText(m)) => ~In(Expected[m], html')
          /\ (outcome' # outcome /\ outcome' # Append(outcome, "written")) =>
                /\ predicted_segments' = predicted_segments
                /\ accepted' = <<>> \/ pc # "accept"
      ]_vars

\* the first table got three empty results and was left alone, the second was written
C18_Witness ==
    /\ REMOTE_OCR_ENABLED /\ pc = "done" /\ outcome = <<"skipped", "written">>
    /\ predicted_segments[table_segments[1]] = segments0[table_segments[1]]
    /\ predicted_segments[table_segments[2]].text_content = accepted
    /\ accepted # <<>>

(***************************************************************************)
(* C12: under any interleaving of awaitable OCR calls on several threads,  *)
(* at most one async client is constructed per thread, a thread constructs *)
(* it on its first call only, every request of a thread goes out on the    *)
(* client that thread constructed, and so no client serves two threads.    *)
(***************************************************************************)
C12_OneClientPerThread ==
    /\ \A t \in Threads :
          /\ Cardinality({c \in 1..Len(clients) : clients[c] = t}) <= 1
          /\ started[t] = 0 => \A c \in 1..Len(clients) : clients[c] # t
          /\ thread_local[t] # 0 => clients[thread_local[t]] = t
    /\ \A r \in 1..Len(requests) :
          /\ requests[r].client \in 1..Len(clients)
          /\ clients[requests[r].client] = requests[r].thread
          /\ requests[r].client = thread_local[requests[r].thread]
    /\ \A r, q \in 1..Len(requests) :
          requests[r].client = requests[q].client <=> requests[r].thread = requests[q].thread

\* two threads, interleaved, each sent two requests on its own client
C12_Witness ==
    /\ Len(clients) = 2 /\ Len(requests) = 4
    /\ requests[1].thread # requests[2].thread
    /\ requests[3].client = requests[1].client
    /\ requests[1].client # requests[2].client

(***************************************************************************)
(* C14: for every response text of the backend, the string the OCR call    *)
(* returns neither starts nor ends with a triple-backtick fence, whether   *)
(* the response has a leading fence, a trailing fence, or both.            *)
(***************************************************************************)
C14_NoFenceLeft ==
    ocr_text.returned =>
        \/ ocr_text.text = <<>>
        \/ Head(ocr_text.text) # "FENCE" /\ ocr_text.text[Len(ocr_text.text)] # "FENCE"

\* p is the floor of x * d / 72
FloorOfPixels(p, x, d) == p * 72 <= x * d /\ x * d < (p + 1) * 72

(***************************************************************************)
(* C13: every edge of a table crop is floor(points * dpi / 72) of the same *)
(* edge of the table box, each edge by itself; the box (72, 72, 144, 144)  *)
(* at dpi 144 becomes (144, 144, 288, 288); and every crop-local edge of a *)
(* formula box is the floor conversion of that edge minus the converted    *)
(* left (for left and right) or top (for top and bottom) of the crop.      *)
(***************************************************************************)
C13_FloorConversion ==
    /\ crop_image # NoImage =>
          /\ FloorOfPixels(crop_image.box.left, geometry.table.left, geometry.dpi)
          /\ FloorOfPixels(crop_image.box.top, geometry.table.top, geometry.dpi)
          /\ FloorOfPixels(crop_image.box.right, geometry.table.right, geometry.dpi)
          /\ FloorOfPixels(crop_image.box.bottom, geometry.table.bottom, geometry.dpi)
          /\ (geometry.table = Box(72, 72, 144, 144) /\ geometry.dpi = 144) =>
                crop_image.box = Box(144, 144, 288, 288)
    /\ placement.returned =>
          /\ FloorOfPixels(placement.local.left + crop_image.box.left, geometry.formula.left, geometry.dpi)
          /\ FloorOfPixels(placement.local.top + crop_image.box.top, geometry.formula.top, geometry.dpi)
          /\ FloorOfPixels(placement.local.right + crop_image.box.left, geometry.formula.right, geometry.dpi)
          /\ FloorOfPixels(placement.local.bottom + crop_image.box.top, geometry.formula.bottom, geometry.dpi)

\* conversions that are not exact: at dpi 200, 1 point is 2 pixels and 73 points are 202
C13_Witness ==
    /\ placement.returned /\ geometry.dpi = 200
    /\ geometry.table = Box(0, 72, 144, 144) /\ geometry.formula = Box(1, 73, 73, 144)
    /\ crop_image.box = Box(0, 200, 400, 400)
    /\ placement.local = Box(2, 2, 202, 200)

(***************************************************************************)
(* C17: for every formula box, crop size and crop origin, the crop-local   *)
(* box is padded by max(2, 5% of its smaller dimension, rounded down) and  *)
(* clamped to the crop; nothing is drawn exactly when the clamped box is   *)
(* at most 1 wide or at most 1 high, and nothing is raised then; otherwise *)
(* the box whitened has 0 <= left < right <= crop width and                *)
(* 0 <= top < bottom <= crop height and the font size is within [16, 64].  *)
(***************************************************************************)
C17_PlaceholderBox ==
    placement.returned =>
        LET w == crop_image.box.right - crop_image.box.left
            h == crop_image.box.bottom - crop_image.box.top
            local == placement.local
            smaller == IF local.right - local.left <= local.bottom - local.top
                       THEN local.right - local.left ELSE local.bottom - local.top
            pad == placement.pad
            box == placement.box
            Clamp(x, hi) == IF x < 0 \/ hi < 0 THEN 0 ELSE IF x > hi THEN hi ELSE x
        IN /\ pad >= 2
           /\ smaller < 60 => pad = 2
           /\ smaller >= 60 => (20 * pad <= smaller /\ smaller < 20 * (pad + 1))
           /\ box.left = Clamp(local.left - pad, w - 1)
           /\ box.top = Clamp(local.top - pad, h - 1)
           /\ box.right = Clamp(local.right + pad, w)
           /\ box.bottom = Clamp(local.bottom + pad, h)
           /\ placement.drawn <=> ~(box.right - box.left <= 1 \/ box.bottom - box.top <= 1)
           /\ ~placement.drawn => crop_image.placeholders = {}
           /\ placement.drawn =>
                /\ crop_image.placeholders = {[marker |-> <<"F", "_", "0", "0", "1">>, box |-> box]}
                /\ 0 <= box.left /\ box.left < box.right /\ box.right <= w
                /\ 0 <= box.top /\ box.top < box.bottom /\ box.bottom <= h
                /\ 16 <= placement.font_size /\ placement.font_size <= 64

\* a box padded by 5 pixels, clamped at the right and bottom edges of the crop, font size 64
C17_Witness ==
    /\ placement.returned /\ placement.drawn /\ placement.pad = 5
    /\ placement.local.right + placement.pad > placement.box.right
    /\ placement.box.left > 0
    /\ placement.font_size = 64

\* a fragment ends with a blank line
EndsWithBlankLine(fragment) ==
    Len(fragment) >= 2 /\ fragment[Len(fragment) - 1] = "\n" /\ fragment[Len(fragment)] = "\n"

(***************************************************************************)
(* C15 as stated: every content producer returns a fragment that ends with *)
(* a blank line, for every segment, with or without an output file and     *)
(* with or without contained tokens.                                       *)
(***************************************************************************)
C15_EveryFragmentEndsBlank ==
    \A k \in 1..Len(produced) : EndsWithBlankLine(produced[k].fragment)

(***************************************************************************)
(* C15: the table and the formula producers always return a fragment that  *)
(* ends with a blank line; the picture producer does when an output file   *)
(* is requested and returns the empty string when none is; the title and   *)
(* the regular-text producers do when the segment contains a token and     *)
(* return the empty string when it contains none.                          *)
(***************************************************************************)
C15_EmptyOrEndsBlank ==
    \A k \in 1..Len(produced) :
        LET segment == vgt_segments[produced[k].segment]
            fragment == produced[k].fragment
            empty == IF segment.type = "PICTURE" THEN ~config.output_file
                     ELSE IF segment.type \in {"TABLE", "FORMULA"} THEN FALSE
                     ELSE segment.tokens = <<>>
        IN /\ empty => fragment = <<>>
           /\ ~empty => EndsWithBlankLine(fragment)

\* without an output file: a picture gave nothing, a table gave its html and a blank line
C15_Witness ==
    /\ ~config.output_file /\ Len(produced) = 2
    /\ vgt_segments[produced[1].segment].type = "PICTURE" /\ produced[1].fragment = <<>>
    /\ vgt_segments[produced[2].segment].type = "TABLE"
    /\ produced[2].fragment = <<"<", "t", ">", "\n", "\n">>

\* the concatenation of the parts from the first to the last
RECURSIVE Concatenated(_, _)
Concatenated(parts, n) == IF n = 0 THEN <<>> ELSE Concatenated(parts, n - 1) \o parts[n]

(***************************************************************************)
(* C16: the assembler appends exactly one part per segment, the segments   *)
(* of an earlier page before those of a later page and the segments of one *)
(* page in the order of the input list; each part is what the producer of  *)
(* the segment's type returns; the document returned is the parts put      *)
(* together in that order, after the table-of-contents block when one is   *)
(* requested.                                                              *)
(***************************************************************************)
C16_OnePartPerSegmentInOrder ==
    LET toc == IF config.extract_toc THEN 1 ELSE 0
        Page(k) == vgt_segments[produced[k].segment].page_number
    IN /\ apc \in {"page", "join", "returned"} =>
             /\ Len(content_parts) = toc + Len(produced)
             /\ \A k \in 1..Len(produced) : content_parts[toc + k] = produced[k].fragment
             /\ \A k, l \in 1..Len(produced) :
                   k < l => \/ Page(k) < Page(l)
                            \/ Page(k) = Page(l) /\ produced[k].segment < produced[l].segment
             /\ \A k \in 1..Len(produced) :
                   LET segment == vgt_segments[produced[k].segment]
                       fragment == produced[k].fragment
                   IN CASE segment.type = "PICTURE" ->
                               /\ produced[k].producer = "picture"
                               /\ config.output_file => Head(fragment) = "<img src='"
                        [] segment.type = "TABLE" ->
                               /\ produced[k].producer = "table"
                               /\ fragment = segment.text \o <<"\n", "\n">>
                        [] segment.type \in {"TITLE", "SECTION_HEADER"} ->
                               /\ produced[k].producer = "title"
                               /\ segment.tokens # <<>> =>
                                     Head(fragment) = (IF config.output_format = "HTML" THEN "<h>" ELSE "#")
                        [] segment.type = "FORMULA" ->
                               /\ produced[k].producer = "formula"
                               /\ fragment = segment.text \o <<"\n", "\n">>
                        [] OTHER ->
                               /\ produced[k].producer = "regular"
                               /\ segment.tokens # <<>> => Head(fragment) = Head(Head(segment.tokens))
             /\ config.extract_toc =>
                   SubSeq(content_parts[1], 1, 3) = <<"#", " ", "Table of Contents">>
       /\ apc \in {"join", "returned"} =>
             /\ Len(produced) = Len(vgt_segments)
             /\ \A i \in 1..Len(vgt_segments) : \E k \in 1..Len(produced) : produced[k].segment = i
       /\ apc = "returned" => content = Concatenated(content_parts, Len(content_parts))

\* the list starts with a segment of the last page and ends with one of page 1: the
\* part of the last segment comes first, after the table of contents
C16_Witness ==
    /\ apc = "returned" /\ config.extract_toc /\ Len(vgt_segments) = MaxSegments
    /\ vgt_segments[1].page_number = NumPages
    /\ vgt_segments[MaxSegments].page_number = 1
    /\ produced[1].segment > produced[Len(produced)].segment
    /\ Len(content_parts) = MaxSegments + 1
    /\ content # <<>>

====
